---------------------------- MODULE Spec2Model ----------------------------
(***************************************************************************)
(* A model of desmallifier's main.py: a DXF drawing is read into bounded   *)
(* entities, normalised to the origin, cut into a grid of letter pages,    *)
(* rendered twice (content document and grid/overlay document), analysed   *)
(* for empty pages and composited into the final PDF.                      *)
(*                                                                         *)
(* Lengths on the page are counted in units of 1/508 inch, so that every   *)
(* length of the program is a whole number: 11 in = 5588, 8.5 in = 4318,   *)
(* margin 0.25 in = 127, overlap 0.5 in = 254, tol = 0.5/25.4 in = 10.     *)
(* Python floats are modelled by exact rationals together with the IEEE    *)
(* specials +inf, -inf and nan; float rounding is not modelled.            *)
(***************************************************************************)
EXTENDS Integers, Sequences, FiniteSets, TLC

(***************************************************************************)
(* Numbers: [k, num, den] with k in {"fin", "inf", "nan"}; a finite number *)
(* is num/den in lowest terms with den > 0, an infinity has num = 1 or -1. *)
(***************************************************************************)
Abs(n) == IF n < 0 THEN -n ELSE n

RECURSIVE GCD(_, _)
GCD(a, b) == IF b = 0 THEN a ELSE GCD(b, a % b)

Rat(n, d) ==
    LET g == GCD(Abs(n), Abs(d))
        s == IF d < 0 THEN -1 ELSE 1
    IN  [k |-> "fin", num |-> (s * n) \div g, den |-> (s * d) \div g]

Fin(n) == [k |-> "fin", num |-> n, den |-> 1]

PosInf == [k |-> "inf", num |-> 1, den |-> 1]

NegInf == [k |-> "inf", num |-> -1, den |-> 1]

NaN == [k |-> "nan", num |-> 0, den |-> 1]

IsFin(a) == a.k = "fin"

\* a < b on floats: false whenever a nan is involved.
FLt(a, b) ==
    CASE a.k = "nan" \/ b.k = "nan" -> FALSE
      [] a.k = "inf" /\ b.k = "inf" -> a.num < b.num
      [] a.k = "inf"                -> a.num < 0
      [] b.k = "inf"                -> b.num > 0
      [] OTHER                      -> a.num * b.den < b.num * a.den

FLe(a, b) ==
    CASE a.k = "nan" \/ b.k = "nan" -> FALSE
      [] OTHER                      -> ~FLt(b, a)

\* a - b on floats: inf - inf is nan.
FSub(a, b) ==
    CASE a.k = "nan" \/ b.k = "nan" -> NaN
      [] a.k = "inf" /\ b.k = "inf" -> IF a.num = b.num THEN NaN ELSE a
      [] a.k = "inf"                -> a
      [] b.k = "inf"                -> [b EXCEPT !.num = -b.num]
      [] OTHER                      -> Rat(a.num * b.den - b.num * a.den, a.den * b.den)

FNeg(a) == IF a.k = "nan" THEN a ELSE [a EXCEPT !.num = -a.num]

FAdd(a, b) == FSub(a, FNeg(b))

\* Finite product and quotient (the program multiplies and divides finite
\* numbers everywhere except bb.tr.x/cutx, which num_cuts treats itself).
FMul(a, b) == Rat(a.num * b.num, a.den * b.den)

FDiv(a, b) == Rat(a.num * b.den, a.den * b.num)

\* Python's min(a, b) and max(a, b): the first argument unless the second
\* is strictly smaller (larger).
FMin(a, b) == IF FLt(b, a) THEN b ELSE a

FMax(a, b) == IF FLt(a, b) THEN b ELSE a

\* math.ceil of a finite number.
Ceil(a) == -((-a.num) \div a.den)

(***************************************************************************)
(* Geometry model: Point, RectXY, Line, Arc.                               *)
(***************************************************************************)
Point(x, y) == [x |-> x, y |-> y]

\* Point.offset: subtract another point component-wise.
Point_offset(p, o) == Point(FSub(p.x, o.x), FSub(p.y, o.y))

RectXY(bl, tr) == [bl |-> bl, tr |-> tr]

\* RectXY.offset, called as bb.offset(replace(bb.bl)): the argument is a
\* copy, so both corners are moved by the same, original bl.
RectXY_offset(r, o) == RectXY(Point_offset(r.bl, o), Point_offset(r.tr, o))

Line(start, end) == [kind |-> "Line", start |-> start, end |-> end]

Line_bounds(e) ==
    RectXY(Point(FMin(e.start.x, e.end.x), FMin(e.start.y, e.end.y)),
           Point(FMax(e.start.x, e.end.x), FMax(e.start.y, e.end.y)))

Line_offset(e, o) ==
    [e EXCEPT !.start = Point_offset(e.start, o), !.end = Point_offset(e.end, o)]

Arc(center, r, start_angle, end_angle) ==
    [kind |-> "Arc", center |-> center, r |-> r,
     start_angle |-> start_angle, end_angle |-> end_angle]

\* Angles are whole degrees on a grid of 15 degrees; the cosine of a grid
\* angle in the first quadrant is tabulated to four decimals.
CosTable == [a \in {0, 15, 30, 45, 60, 75, 90} |->
               CASE a = 0  -> Rat(1, 1)
                 [] a = 15 -> Rat(9659, 10000)
                 [] a = 30 -> Rat(8660, 10000)
                 [] a = 45 -> Rat(7071, 10000)
                 [] a = 60 -> Rat(1, 2)
                 [] a = 75 -> Rat(2588, 10000)
                 [] a = 90 -> Rat(0, 1)]

\* math.cos(angle * math.pi/180) and math.sin(...), periodic in 360.
CosDeg(a) ==
    LET m == a % 360
    IN  CASE m <= 90  -> CosTable[m]
          [] m <= 180 -> FNeg(CosTable[180 - m])
          [] m <= 270 -> FNeg(CosTable[m - 180])
          [] OTHER    -> CosTable[360 - m]

SinDeg(a) == CosDeg(a - 90)

CardinalAngles == <<0, 90, 180, 270>>

\* The sweep test of Arc.bounds for one cardinal angle.
ArcIncludesMissingWrapHigh(e, extra_angle) ==
    LET wrap == e.start_angle > e.end_angle
    IN  \/ (e.start_angle <= extra_angle /\ extra_angle <= e.end_angle)
        \/ (wrap /\ extra_angle <= e.end_angle)

ArcIncludes(e, extra_angle) ==
    LET wrap == e.start_angle > e.end_angle
    IN  \/ (e.start_angle <= extra_angle /\ extra_angle <= e.end_angle)
        \/ (wrap /\ extra_angle <= e.end_angle)
        \/ (wrap /\ e.start_angle <= extra_angle)

\* The candidate angles: both endpoints, then the cardinals swept.
Arc_angles(e) ==
    <<e.start_angle, e.end_angle>>
      \o SelectSeq(CardinalAngles, LAMBDA a : ArcIncludes(e, a))

RECURSIVE ArcFold(_, _, _, _)
ArcFold(e, angles, n, acc) ==
    IF n > Len(angles) THEN acc
    ELSE LET x == FAdd(e.center.x, FMul(e.r, CosDeg(angles[n])))
             y == FAdd(e.center.y, FMul(e.r, SinDeg(angles[n])))
         IN  ArcFold(e, angles, n + 1,
                     [max_x |-> FMax(acc.max_x, x), max_y |-> FMax(acc.max_y, y),
                      min_x |-> FMin(acc.min_x, x), min_y |-> FMin(acc.min_y, y)])

Arc_bounds(e) ==
    LET m == ArcFold(e, Arc_angles(e), 1,
                     [max_x |-> NegInf, min_x |-> PosInf,
                      max_y |-> NegInf, min_y |-> PosInf])
    IN  RectXY(Point(m.min_x, m.min_y), Point(m.max_x, m.max_y))

Arc_offset(e, o) == [e EXCEPT !.center = Point_offset(e.center, o)]

\* e.bounds() and e.offset(o), dispatched on the entity's class.
Bounds(e) == IF e.kind = "Line" THEN Line_bounds(e) ELSE Arc_bounds(e)

Offset(e, o) == IF e.kind = "Line" THEN Line_offset(e, o) ELSE Arc_offset(e, o)

update_bounds(bb1, bb2) ==
    RectXY(Point(FMin(bb1.bl.x, bb2.bl.x), FMin(bb1.bl.y, bb2.bl.y)),
           Point(FMax(bb1.tr.x, bb2.tr.x), FMax(bb1.tr.y, bb2.tr.y)))

(***************************************************************************)
(* Params and the page transform.                                          *)
(***************************************************************************)
PageLong == 5588

PageShort == 4318

Margin == 127

DefaultOverlap == 254

Tol == 10

\* Params.__post_init__: the page size of the orientation and the world
\* span cut per page on each axis.
Params(orientation, scale, overlap, margin) ==
    LET page_h == IF orientation = "landscape" THEN Fin(PageShort) ELSE Fin(PageLong)
        page_w == IF orientation = "landscape" THEN Fin(PageLong) ELSE Fin(PageShort)
        two_m  == FMul(Fin(2), margin)
    IN  [orientation |-> orientation, scale |-> scale, overlap |-> overlap,
         margin |-> margin, page_h |-> page_h, page_w |-> page_w,
         cutx |-> FDiv(FSub(FSub(page_w, overlap), two_m), scale),
         cuty |-> FDiv(FSub(FSub(page_h, overlap), two_m), scale)]

\* math.ceil(extent/cut): a number of pages, or the exception math.ceil
\* raises on an infinity or a nan.
num_cuts(extent, cut) ==
    CASE extent.k = "inf" -> [ok |-> FALSE, n |-> 0, err |-> "OverflowError"]
      [] extent.k = "nan" -> [ok |-> FALSE, n |-> 0, err |-> "ValueError"]
      [] OTHER -> [ok |-> TRUE, n |-> Ceil(FDiv(extent, cut)), err |-> "none"]

\* PDFDrawer.draw_line: a world segment in page coordinates, for the
\* drawer's offset (ox, oy).
PageX(params, ox, x) == FAdd(FMul(params.scale, FAdd(x, ox)), params.margin)

PageY(params, oy, y) ==
    FSub(FSub(params.page_h, FMul(params.scale, FAdd(y, oy))), params.margin)

draw_line(params, o, x1, y1, x2, y2) ==
    [op |-> "line",
     x1 |-> PageX(params, o.x, x1), y1 |-> PageY(params, o.y, y1),
     x2 |-> PageX(params, o.x, x2), y2 |-> PageY(params, o.y, y2)]

\* PDFDrawer.draw_arc: the arc's box in page coordinates (the angles are
\* mirrored because the page's y axis points down).
draw_arc(params, o, e) ==
    LET cx == FMul(params.scale, FAdd(e.center.x, o.x))
        cy == FMul(params.scale, FAdd(e.center.y, o.y))
        r  == FMul(params.scale, e.r)
    IN  [op |-> "arc",
         x1 |-> FAdd(FSub(cx, r), params.margin),
         y1 |-> FSub(FSub(params.page_h, FAdd(cy, r)), params.margin),
         x2 |-> FMul(Fin(2), r), y2 |-> FMul(Fin(2), r)]

draw_entity(params, o, e) ==
    IF e.kind = "Line"
    THEN draw_line(params, o, e.start.x, e.start.y, e.end.x, e.end.y)
    ELSE draw_arc(params, o, e)

\* draw_page: one draw call per entity, in the entities' order.
draw_page(params, ents, o) == [n \in 1..Len(ents) |-> draw_entity(params, o, ents[n])]

\* The clip rectangle main passes to rect_clip, as (x, y, w, h).
ClipRect(params) ==
    [x |-> FSub(params.margin, Fin(Tol)), y |-> FSub(params.margin, Fin(Tol)),
     w |-> FSub(FAdd(params.page_w, FMul(Fin(2), Fin(Tol))), FMul(Fin(2), params.margin)),
     h |-> FSub(FAdd(params.page_h, FMul(Fin(2), Fin(Tol))), FMul(Fin(2), params.margin))]

\* The offset Point(-x, -y) of tile (i, j), with x = i*cutx, y = j*cuty.
TileOffset(params, i, j) ==
    Point(FNeg(FMul(Fin(i), params.cutx)), FNeg(FMul(Fin(j), params.cuty)))

(***************************************************************************)
(* The empty-page detector.  A grayscale image is the histogram of its     *)
(* pixels: how many pixels it has of each luminance level.                 *)
(***************************************************************************)
LumLevels == {0, 249, 250, 255}

RECURSIVE SumOver(_, _)
SumOver(img, levels) ==
    IF levels = {} THEN 0
    ELSE LET l == CHOOSE x \in levels : TRUE
         IN  img[l] + SumOver(img, levels \ {l})

\* The loop over gray_img.getdata(): the pixels below the threshold.
non_white_count(img) == SumOver(img, {l \in LumLevels : l < 250})

\* gray_img.width * gray_img.height.
total_pixels(img) == SumOver(img, LumLevels)

non_white_percentage(img) ==
    FMul(FDiv(Fin(non_white_count(img)), Fin(total_pixels(img))), Fin(100))

is_emptyLe(img) == FLe(non_white_percentage(img), Rat(1, 10))

is_empty(img) == FLt(non_white_percentage(img), Rat(1, 10))

\* The loop of analyze_pdf_for_empty_pages from page n on (page_idx is
\* n - 1), appending to non_empty_pages.
RECURSIVE AnalyzeLoop(_, _, _)
AnalyzeLoop(images, n, non_empty_pages) ==
    IF n > Len(images) THEN non_empty_pages
    ELSE AnalyzeLoop(images, n + 1,
                     IF ~is_empty(images[n])
                     THEN Append(non_empty_pages, n - 1)
                     ELSE non_empty_pages)

analyze_pdf_for_empty_pages(images) == AnalyzeLoop(images, 1, <<>>)

(***************************************************************************)
(* Documents, pages and files.  A page is the sequence of its graphics     *)
(* groups in drawing order; a group is what main draws inside one          *)
(* rect_clip block.  A path is a sequence of tokens, ".pdf" being one.     *)
(***************************************************************************)
UnitsPerInch == 508

PagePixels == 484704

\* str.replace(old, new) on a path.
Replace(path, old, new) == [n \in 1..Len(path) |-> IF path[n] = old THEN new ELSE path[n]]

temp_pdf_path(a) == Replace(a.pdf, ".pdf", ".temp.pdf")

grid_pdf_path(a) == Replace(a.pdf, ".pdf", ".grid.pdf")

NoFile == [kind |-> "none", pages |-> <<>>]

\* The content group of tile (i, j): lines 390-395.
ContentGroup(params, ents, i, j) ==
    [layer |-> "content", i |-> i, j |-> j, clip |-> ClipRect(params),
     offset |-> TileOffset(params, i, j),
     calls |-> draw_page(params, ents, TileOffset(params, i, j)),
     marks |-> 0, label |-> <<>>]

\* draw_grid_markers: the number of draw_line calls it makes, two per hatch
\* step and two per registration cross.
draw_grid_markers(params, bbtr) ==
    LET bb_r  == FMax(bbtr.x, bbtr.y)
        span  == FMul(params.scale, FAdd(bbtr.x, FMul(Fin(2), bb_r)))
        hatch == Ceil(FDiv(span, Fin(UnitsPerInch))) + 1
        nx    == Ceil(FDiv(bbtr.x, params.cutx))
        ny    == Ceil(FDiv(bbtr.y, params.cuty))
    IN  2 * hatch + 2 * (nx + 1) * (ny + 1)

\* The overlay group of tile (i, j): lines 397-402.
OverlayGroup(params, bbtr, i, j) ==
    [layer |-> "overlay", i |-> i, j |-> j, clip |-> ClipRect(params),
     offset |-> TileOffset(params, i, j), calls |-> <<>>,
     marks |-> draw_grid_markers(params, bbtr), label |-> <<i, j>>]

\* PyPDF2's base.merge_page(other): other's content stream is appended to
\* base's, so other is drawn after base.
merge_pageUnder(base, other) == other \o base

merge_page(base, other) == base \o other

\* What the rasterizer can return for a page at 72 dpi: a page with
\* nothing drawn is white, the grid markers always leave ink, and drawn
\* entities may or may not be visible inside the clip rectangle.
BlankRaster == [l \in LumLevels |-> IF l = 255 THEN PagePixels ELSE 0]

InkedRaster ==
    [l \in LumLevels |-> CASE l = 0   -> PagePixels \div 100
                           [] l = 255 -> PagePixels - PagePixels \div 100
                           [] OTHER   -> 0]

PageRasters(page) ==
    CASE \E n \in 1..Len(page) : page[n].marks > 0       -> {InkedRaster}
      [] \A n \in 1..Len(page) : Len(page[n].calls) = 0  -> {BlankRaster}
      [] OTHER                                           -> {BlankRaster, InkedRaster}

convert_from_path(doc) ==
    {imgs \in [1..Len(doc.pages) -> {BlankRaster, InkedRaster}] :
        \A n \in 1..Len(doc.pages) : imgs[n] \in PageRasters(doc.pages[n])}

InSeq(x, sq) == \E n \in 1..Len(sq) : sq[n] = x

(***************************************************************************)
(* State of one run of main.                                               *)
(***************************************************************************)
VARIABLES
    pc,               \* where main is
    err,              \* the exception that ended the run, or "none"
    args,             \* the command line: pdf, scale, overlap
    modelspace,       \* the entities of the DXF file, in file order
    next_item,        \* the position of the ingestion loop
    entities, bb,     \* add_entity's list and bounding box
    orientation, params, num_cutsx, num_cutsy,
    ti, tj,           \* the tile the render loop is at
    pdf, grid_pdf,    \* the content document and the overlay document
    fs,               \* the files at the paths main writes
    reader, grid_reader,
    analyzed,         \* the file analyze_pdf_for_empty_pages was given
    images,           \* the rasters of its pages
    non_empty_pages,
    writer, pages_kept, pages_removed,
    ci,               \* the position of the compositing loop
    arc, arc_rect     \* an arc and the rectangle Arc.bounds returned for it

vars == <<pc, err, args, modelspace, next_item, entities, bb, orientation, params,
          num_cutsx, num_cutsy, ti, tj, pdf, grid_pdf, fs, reader, grid_reader,
          analyzed, images, non_empty_pages, writer, pages_kept, pages_removed,
          ci, arc, arc_rect>>

inputVars == <<args, modelspace, arc, arc_rect>>

ingestVars == <<next_item, entities, bb>>

planVars == <<orientation, params, num_cutsx, num_cutsy>>

renderVars == <<ti, tj, pdf, grid_pdf>>

readVars == <<reader, grid_reader>>

analyzeVars == <<analyzed, images, non_empty_pages>>

composeVars == <<writer, pages_kept, pages_removed, ci>>

(***************************************************************************)
(* Inputs.                                                                 *)
(***************************************************************************)
MaxEntities == 2

CoordLo == 1000

Far == 6000

Lo == Fin(CoordLo)

Hi == Fin(CoordLo + Far)

NoEntity == Line(Point(Fin(0), Fin(0)), Point(Fin(0), Fin(0)))

DxfItems ==
    {[dxftype |-> "LINE", e |-> Line(Point(Lo, Lo), Point(Hi, Hi))],
     [dxftype |-> "LINE", e |-> Line(Point(Hi, Lo), Point(Lo, Hi))],
     [dxftype |-> "LINE", e |-> Line(Point(Lo, Lo), Point(Hi, Lo))],
     [dxftype |-> "LINE", e |-> Line(Point(Lo, Hi), Point(Lo, Lo))],
     [dxftype |-> "LINE", e |-> Line(Point(Hi, Hi), Point(Hi, Hi))],
     [dxftype |-> "ARC",  e |-> Arc(Point(Lo, Lo), Fin(Far), 0, 90)],
     [dxftype |-> "MTEXT", e |-> NoEntity],
     [dxftype |-> "CIRCLE", e |-> NoEntity]}

Modelspaces == UNION {[1..n -> DxfItems] : n \in 0..MaxEntities}

PdfPaths == {<<"out", ".pdf">>, <<"out">>}

Scales == {Fin(1), Rat(1, 2)}

Overlaps == {Fin(DefaultOverlap), Fin(0)}

EmptyBB == RectXY(Point(PosInf, PosInf), Point(NegInf, NegInf))

NoParams == Params("portrait", Fin(1), Fin(0), Fin(0))

NoArc == Arc(Point(Fin(0), Fin(0)), Fin(0), 0, 0)

Paths(a) == {a.pdf, temp_pdf_path(a), grid_pdf_path(a)}

\* The state at the start of main, for a given command line and file.
StartCore(a, ms) ==
    /\ args = a
    /\ modelspace = ms
    /\ err = "none"
    /\ next_item = 1
    /\ entities = <<>>
    /\ bb = EmptyBB
    /\ orientation = "unset"
    /\ params = NoParams
    /\ num_cutsx = 0
    /\ num_cutsy = 0
    /\ ti = 0
    /\ tj = 0
    /\ pdf = <<>>
    /\ grid_pdf = <<>>
    /\ fs = [p \in Paths(a) |-> NoFile]
    /\ reader = <<>>
    /\ grid_reader = <<>>
    /\ analyzed = NoFile
    /\ non_empty_pages = <<>>
    /\ writer = <<>>
    /\ pages_kept = 0
    /\ pages_removed = 0
    /\ ci = 0

Start(a, ms) ==
    /\ StartCore(a, ms)
    /\ images = <<>>

Init ==
    /\ pc = "start"
    /\ \E a \in [pdf : PdfPaths, scale : Scales, overlap : Overlaps] :
         \E ms \in Modelspaces : Start(a, ms)
    /\ arc = NoArc
    /\ arc_rect = EmptyBB

(***************************************************************************)
(* main, step by step.                                                     *)
(***************************************************************************)
Raise(e) ==
    /\ pc' = "error"
    /\ err' = e

\* ezdxf.readfile(args.dxf), line 327.
ReadFile ==
    /\ pc = "start"
    /\ \E outcome \in {"ok", "IOError"} :
         IF outcome = "ok"
         THEN pc' = "ingest" /\ err' = err
         ELSE Raise(outcome)
    /\ UNCHANGED <<inputVars, ingestVars, planVars, renderVars, fs, readVars,
                   analyzeVars, composeVars>>

\* add_entity, lines 331-337.
add_entity(e) ==
    /\ entities' = Append(entities, e)
    /\ bb' = update_bounds(bb, Bounds(e))

\* One turn of the loop over dxf.modelspace(), lines 339-356.
Ingest ==
    /\ pc = "ingest"
    /\ next_item <= Len(modelspace)
    /\ LET item == modelspace[next_item]
       IN  CASE item.dxftype \in {"LINE", "ARC"} ->
                  /\ add_entity(item.e)
                  /\ next_item' = next_item + 1
                  /\ UNCHANGED <<pc, err>>
             [] item.dxftype = "MTEXT" ->
                  /\ next_item' = next_item + 1
                  /\ UNCHANGED <<pc, err, entities, bb>>
             [] OTHER ->
                  /\ Raise("ValueError")
                  /\ UNCHANGED <<next_item, entities, bb>>
    /\ UNCHANGED <<inputVars, planVars, renderVars, fs, readVars, analyzeVars,
                   composeVars>>

\* Lines 359-364: every entity and the box are moved by the box's bottom
\* left corner, and the orientation is chosen.
Normalize ==
    /\ pc = "ingest"
    /\ next_item > Len(modelspace)
    /\ entities' = [n \in 1..Len(entities) |-> Offset(entities[n], bb.bl)]
    /\ bb' = RectXY_offset(bb, bb.bl)
    /\ orientation' = IF FLt(bb'.tr.y, bb'.tr.x) THEN "landscape" ELSE "portrait"
    /\ pc' = "plan"
    /\ UNCHANGED <<err, inputVars, next_item, params, num_cutsx, num_cutsy,
                   renderVars, fs, readVars, analyzeVars, composeVars>>

\* Lines 366-382: the two documents, the parameters and the grid size.
Plan ==
    /\ pc = "plan"
    /\ params' = Params(orientation, args.scale, args.overlap, Fin(Margin))
    /\ LET nx == num_cuts(bb.tr.x, params'.cutx)
           ny == num_cuts(bb.tr.y, params'.cuty)
       IN  CASE ~nx.ok ->
                  /\ Raise(nx.err)
                  /\ UNCHANGED <<num_cutsx, num_cutsy>>
             [] nx.ok /\ ~ny.ok ->
                  /\ Raise(ny.err)
                  /\ num_cutsx' = nx.n
                  /\ UNCHANGED num_cutsy
             [] OTHER ->
                  /\ num_cutsx' = nx.n
                  /\ num_cutsy' = ny.n
                  /\ pc' = "render"
                  /\ err' = err
    /\ ti' = 0
    /\ tj' = 0
    /\ pdf' = <<>>
    /\ grid_pdf' = <<>>
    /\ UNCHANGED <<inputVars, ingestVars, orientation, fs, readVars, analyzeVars,
                   composeVars>>

\* One turn of the render loops, lines 385-402: a content page and an
\* overlay page for tile (ti, tj).  A draw call may be rejected.
RenderTile ==
    /\ pc = "render"
    /\ ti < num_cutsx
    /\ num_cutsy > 0
    /\ \E outcome \in {"ok", "RenderError"} :
         IF outcome = "ok"
         THEN /\ pdf' = Append(pdf, <<ContentGroup(params, entities, ti, tj)>>)
              /\ grid_pdf' = Append(grid_pdf, <<OverlayGroup(params, bb.tr, ti, tj)>>)
              /\ IF tj + 1 < num_cutsy
                 THEN ti' = ti /\ tj' = tj + 1
                 ELSE ti' = ti + 1 /\ tj' = 0
              /\ UNCHANGED <<pc, err>>
         ELSE /\ Raise(outcome)
              /\ UNCHANGED renderVars
    /\ UNCHANGED <<inputVars, ingestVars, planVars, fs, readVars, analyzeVars,
                   composeVars>>

RenderDone ==
    /\ pc = "render"
    /\ (ti >= num_cutsx \/ num_cutsy = 0)
    /\ pc' = "write_temp"
    /\ UNCHANGED <<err, inputVars, ingestVars, planVars, renderVars, fs, readVars,
                   analyzeVars, composeVars>>

\* document.output(path): the file holds the document, or the open fails
\* and the file is as before, or the write fails part-way.
Output(path, kind, pages, outcome) ==
    CASE outcome = "ok" ->
           fs' = [fs EXCEPT ![path] = [kind |-> kind, pages |-> pages]]
      [] outcome = "open failed" ->
           fs' = fs
      [] OTHER ->
           fs' = [fs EXCEPT ![path] = [kind |-> "partial", pages |-> <<>>]]

IOOutcomes == {"ok", "open failed", "write failed"}

\* Lines 405-406.
WriteTemp ==
    /\ pc = "write_temp"
    /\ \E outcome \in IOOutcomes :
         /\ Output(temp_pdf_path(args), "content", pdf, outcome)
         /\ IF outcome = "ok" THEN pc' = "write_grid" /\ err' = err ELSE Raise("IOError")
    /\ UNCHANGED <<inputVars, ingestVars, planVars, renderVars, readVars,
                   analyzeVars, composeVars>>

\* Lines 408-409.
WriteGrid ==
    /\ pc = "write_grid"
    /\ \E outcome \in IOOutcomes :
         /\ Output(grid_pdf_path(args), "overlay", grid_pdf, outcome)
         /\ IF outcome = "ok" THEN pc' = "open" /\ err' = err ELSE Raise("IOError")
    /\ UNCHANGED <<inputVars, ingestVars, planVars, renderVars, readVars,
                   analyzeVars, composeVars>>

\* Lines 412-415: each reader reads whatever file is at its path.
OpenReaders ==
    /\ pc = "open"
    /\ \E outcome \in {"ok", "IOError"} :
         IF outcome = "ok"
         THEN /\ reader' = fs[temp_pdf_path(args)].pages
              /\ grid_reader' = fs[grid_pdf_path(args)].pages
              /\ pc' = "analyze"
              /\ err' = err
         ELSE /\ Raise(outcome)
              /\ UNCHANGED readVars
    /\ UNCHANGED <<inputVars, ingestVars, planVars, renderVars, fs, analyzeVars,
                   composeVars>>

\* Line 419: the file at temp_pdf_path is rasterized and analysed.
Analyze ==
    /\ pc = "analyze"
    /\ analyzed' = fs[temp_pdf_path(args)]
    /\ \/ \E imgs \in convert_from_path(analyzed') :
            /\ images' = imgs
            /\ non_empty_pages' = analyze_pdf_for_empty_pages(imgs)
            /\ pc' = "compose"
            /\ err' = err
       \/ /\ Raise("RasterError")
          /\ UNCHANGED <<images, non_empty_pages>>
    /\ writer' = <<>>
    /\ pages_kept' = 0
    /\ pages_removed' = 0
    /\ ci' = 0
    /\ UNCHANGED <<inputVars, ingestVars, planVars, renderVars, fs, readVars>>

ZipLen == IF Len(reader) < Len(grid_reader) THEN Len(reader) ELSE Len(grid_reader)

\* One turn of the loop of lines 425-432, for page index ci.
Compose ==
    /\ pc = "compose"
    /\ ci < ZipLen
    /\ LET page      == reader[ci + 1]
           grid_page == grid_reader[ci + 1]
       IN  IF InSeq(ci, non_empty_pages)
           THEN /\ writer' = Append(writer, merge_page(grid_page, page))
                /\ pages_kept' = pages_kept + 1
                /\ UNCHANGED pages_removed
           ELSE /\ pages_removed' = pages_removed + 1
                /\ UNCHANGED <<writer, pages_kept>>
    /\ ci' = ci + 1
    /\ UNCHANGED <<pc, err, inputVars, ingestVars, planVars, renderVars, fs,
                   readVars, analyzeVars>>

ComposeDone ==
    /\ pc = "compose"
    /\ ci >= ZipLen
    /\ pc' = "open_out"
    /\ UNCHANGED <<err, inputVars, ingestVars, planVars, renderVars, fs, readVars,
                   analyzeVars, composeVars>>

\* Line 435: open(args.pdf, 'wb') creates or truncates the file.
OpenOutput ==
    /\ pc = "open_out"
    /\ \E outcome \in {"ok", "IOError"} :
         IF outcome = "ok"
         THEN /\ fs' = [fs EXCEPT ![args.pdf] = [kind |-> "partial", pages |-> <<>>]]
              /\ pc' = "write_out"
              /\ err' = err
         ELSE /\ Raise(outcome)
              /\ fs' = fs
    /\ UNCHANGED <<inputVars, ingestVars, planVars, renderVars, readVars,
                   analyzeVars, composeVars>>

\* Line 436: writer.write(output_file).
WriteOutput ==
    /\ pc = "write_out"
    /\ \E outcome \in {"ok", "IOError"} :
         IF outcome = "ok"
         THEN /\ fs' = [fs EXCEPT ![args.pdf] = [kind |-> "final", pages |-> writer]]
              /\ pc' = "remove"
              /\ err' = err
         ELSE /\ Raise(outcome)
              /\ fs' = fs
    /\ UNCHANGED <<inputVars, ingestVars, planVars, renderVars, readVars,
                   analyzeVars, composeVars>>

\* Line 439: os.remove(temp_pdf_path).
RemoveTemp ==
    /\ pc = "remove"
    /\ \E outcome \in {"ok", "OSError"} :
         IF outcome = "ok"
         THEN /\ fs' = [fs EXCEPT ![temp_pdf_path(args)] = NoFile]
              /\ pc' = "done"
              /\ err' = err
         ELSE /\ Raise(outcome)
              /\ fs' = fs
    /\ UNCHANGED <<inputVars, ingestVars, planVars, renderVars, readVars,
                   analyzeVars, composeVars>>

Next ==
    \/ ReadFile
    \/ Ingest
    \/ Normalize
    \/ Plan
    \/ RenderTile
    \/ RenderDone
    \/ WriteTemp
    \/ WriteGrid
    \/ OpenReaders
    \/ Analyze
    \/ Compose
    \/ ComposeDone
    \/ OpenOutput
    \/ WriteOutput
    \/ RemoveTemp

Spec == Init /\ [][Next]_vars

(***************************************************************************)
(* Arc.bounds and analyze_pdf_for_empty_pages on their own: each is        *)
(* applied to an input drawn from a bounded set.                           *)
(***************************************************************************)
MaxRadius == 2

OutOfRangeSteps == 6

AngleGrid == {15 * k : k \in (0 - OutOfRangeSteps)..(24 + OutOfRangeSteps)}

ArcInputs ==
    {Arc(c, Fin(r), s, e) :
        c \in {Point(Fin(0), Fin(0)), Point(Fin(3), Fin(-2))},
        r \in 0..MaxRadius, s \in AngleGrid, e \in AngleGrid}

IdleArgs == [pdf |-> <<"out", ".pdf">>, scale |-> Fin(1), overlap |-> Fin(DefaultOverlap)]

InitArc ==
    /\ pc = "arc"
    /\ Start(IdleArgs, <<>>)
    /\ arc \in ArcInputs
    /\ arc_rect = EmptyBB

ArcBounds ==
    /\ pc = "arc"
    /\ arc_rect' = Arc_bounds(arc)
    /\ pc' = "arc_done"
    /\ UNCHANGED <<err, args, modelspace, arc, ingestVars, planVars, renderVars, fs,
                   readVars, analyzeVars, composeVars>>

NextArc == ArcBounds

SpecArc == InitArc /\ [][NextArc]_vars

MaxImages == 2

MaxDark == 1

WhiteBase == 997

WhiteSpan == 3

RasterInputs ==
    {[l \in LumLevels |-> CASE l = 0   -> d
                            [] l = 249 -> n
                            [] l = 250 -> t
                            [] OTHER   -> w] :
        d \in 0..MaxDark, n \in 0..1, t \in 0..1, w \in WhiteBase..(WhiteBase + WhiteSpan)}

InitDetect ==
    /\ pc = "detect"
    /\ \E imgs \in UNION {[1..n -> RasterInputs] : n \in 1..MaxImages} :
         /\ StartCore(IdleArgs, <<>>)
         /\ images = imgs
    /\ arc = NoArc
    /\ arc_rect = EmptyBB

DetectPages ==
    /\ pc = "detect"
    /\ non_empty_pages' = analyze_pdf_for_empty_pages(images)
    /\ pc' = "detect_done"
    /\ UNCHANGED <<err, inputVars, ingestVars, planVars, renderVars, fs, readVars,
                   analyzed, images, composeVars>>

NextDetect == DetectPages

SpecDetect == InitDetect /\ [][NextDetect]_vars

(***************************************************************************)
(* main up to the end of the render loops, for one line whose extent on    *)
(* each axis is at or just past a whole number of pages.                   *)
(***************************************************************************)
MaxTiles == 2

TileArgs == [pdf : {<<"out", ".pdf">>}, scale : {Fin(1), Rat(5, 2), Rat(1, 2)},
             overlap : {Fin(DefaultOverlap), Fin(0)}]

TileExtents(a) ==
    {FAdd(FMul(Fin(m), c), Fin(d)) :
        c \in {Params(o, a.scale, a.overlap, Fin(Margin)).cutx : o \in {"landscape", "portrait"}},
        m \in 0..MaxTiles, d \in 0..1}

InitTile ==
    /\ pc = "start"
    /\ \E a \in TileArgs :
         \E w \in TileExtents(a), h \in TileExtents(a) :
            Start(a, <<[dxftype |-> "LINE",
                        e |-> Line(Point(Lo, Lo), Point(FAdd(Lo, w), FAdd(Lo, h)))]>>)
    /\ arc = NoArc
    /\ arc_rect = EmptyBB

NextTile ==
    \/ ReadFile
    \/ Ingest
    \/ Normalize
    \/ Plan
    \/ RenderTile
    \/ RenderDone

SpecTile == InitTile /\ [][NextTile]_vars

(***************************************************************************)
(* Properties.                                                             *)
(***************************************************************************)
\* The angles of the 15 degree grid that an arc sweeps, counter-clockwise
\* from its start angle to its end angle, through 360 when start > end.
Swept(e) ==
    LET last == IF e.start_angle <= e.end_angle THEN e.end_angle ELSE e.end_angle + 360
    IN  {a \in {15 * k : k \in (0 - OutOfRangeSteps)..(48 + OutOfRangeSteps)} :
            e.start_angle <= a /\ a <= last}

ArcPoint(e, a) ==
    Point(FAdd(e.center.x, FMul(e.r, CosDeg(a))), FAdd(e.center.y, FMul(e.r, SinDeg(a))))

Contains(rect, p) ==
    /\ FLe(rect.bl.x, p.x) /\ FLe(p.x, rect.tr.x)
    /\ FLe(rect.bl.y, p.y) /\ FLe(p.y, rect.tr.y)

AnglesInRange(e) ==
    /\ 0 <= e.start_angle /\ e.start_angle <= 360
    /\ 0 <= e.end_angle /\ e.end_angle <= 360

\* C6 as stated: for every arc, whatever its angles, the rectangle
\* Arc.bounds returns contains the point of every angle the arc sweeps.
C6_AnyAngles ==
    pc = "arc_done" =>
        \A a \in Swept(arc) : Contains(arc_rect, ArcPoint(arc, a))

\* C6 as amended: for every arc whose start and end angle lie in [0, 360],
\* the rectangle Arc.bounds returns contains the point of every angle the
\* arc sweeps; every cardinal direction swept is among the sampled angles
\* (up to a full turn), and the two endpoints are the first two samples.
C6_ArcBoundCoverage ==
    (pc = "arc_done" /\ AnglesInRange(arc)) =>
        /\ \A a \in Swept(arc) :
             /\ Contains(arc_rect, ArcPoint(arc, a))
             /\ a % 90 = 0 =>
                  \E n \in 1..Len(Arc_angles(arc)) : Arc_angles(arc)[n] % 360 = a % 360
        /\ Arc_angles(arc)[1] = arc.start_angle
        /\ Arc_angles(arc)[2] = arc.end_angle

\* A wrapping arc of positive radius that sweeps 270 and 0 degrees, and
\* whose rectangle reaches down to the circle's lowest point.
C6_Witness ==
    /\ pc = "arc_done"
    /\ AnglesInRange(arc)
    /\ arc.start_angle > arc.end_angle
    /\ arc.r = Fin(2)
    /\ {270, 360} \subseteq Swept(arc)
    /\ arc_rect.bl.y = FSub(arc.center.y, arc.r)
    /\ arc_rect.tr.x = FAdd(arc.center.x, arc.r)

\* The pixels of an image whose luminance is strictly below 250, and all
\* its pixels.
DarkPixels(img) == SumOver(img, {l \in DOMAIN img : l < 250})

AllPixels(img) == SumOver(img, DOMAIN img)

\* C5: a page is classified empty exactly when 100 * dark / total < 0.1,
\* that is 1000 * dark < total; an entirely white page is classified empty;
\* the result lists exactly the indices of the non-empty pages, increasing.
C5_EmptyRule ==
    pc = "detect_done" =>
        /\ \A n \in 1..Len(images) :
             /\ InSeq(n - 1, non_empty_pages)
                  <=> ~(1000 * DarkPixels(images[n]) < AllPixels(images[n]))
             /\ images[n][255] = AllPixels(images[n]) => ~InSeq(n - 1, non_empty_pages)
        /\ \A k \in 1..Len(non_empty_pages) :
             /\ non_empty_pages[k] \in 0..(Len(images) - 1)
             /\ k > 1 => non_empty_pages[k - 1] < non_empty_pages[k]

\* Two pages with one dark pixel each: the first of 1001 pixels is empty,
\* the second of 1000 pixels (exactly 0.1 percent) is not.
C5_Witness ==
    /\ pc = "detect_done"
    /\ Len(images) = 2
    /\ DarkPixels(images[1]) = 1 /\ AllPixels(images[1]) = 1001
    /\ DarkPixels(images[2]) = 1 /\ AllPixels(images[2]) = 1000
    /\ images[2][250] = 1
    /\ non_empty_pages = <<1>>

\* The render loops have run to their end.
AfterRender ==
    pc \in {"write_temp", "write_grid", "open", "analyze", "compose", "open_out",
            "write_out", "remove", "done"}

\* Sample coordinates of the normalized extent on one axis: its two ends,
\* its middle and every tile boundary inside it.
Samples(extent, cut, n) ==
    {Fin(0), FDiv(extent, Fin(2)), extent}
      \cup {FMul(Fin(i), cut) : i \in {k \in 0..n : FLe(FMul(Fin(k), cut), extent)}}

\* World point (x, y) falls inside the clip rectangle of the page group g.
InPrintable(g, x, y) ==
    LET px == PageX(params, g.offset.x, x)
        py == PageY(params, g.offset.y, y)
    IN  /\ FLe(g.clip.x, px) /\ FLe(px, FAdd(g.clip.x, g.clip.w))
        /\ FLe(g.clip.y, py) /\ FLe(py, FAdd(g.clip.y, g.clip.h))

ContentOf(i, j) == {n \in 1..Len(pdf) : pdf[n][1].i = i /\ pdf[n][1].j = j}

Covered ==
    \A x \in Samples(bb.tr.x, params.cutx, num_cutsx) :
      \A y \in Samples(bb.tr.y, params.cuty, num_cutsy) :
        \E i \in 0..(num_cutsx - 1), j \in 0..(num_cutsy - 1) :
          \E n \in ContentOf(i, j) : InPrintable(pdf[n][1], x, y)

\* The world x of the left and right edge, and the world y of the bottom
\* and top edge, of the printable region of the page group g.
LeftEdge(g) == FSub(FDiv(FSub(g.clip.x, params.margin), params.scale), g.offset.x)

RightEdge(g) ==
    FSub(FDiv(FSub(FAdd(g.clip.x, g.clip.w), params.margin), params.scale), g.offset.x)

TopEdge(g) ==
    FSub(FDiv(FSub(FSub(params.page_h, params.margin), g.clip.y), params.scale), g.offset.y)

BottomEdge(g) ==
    FSub(FDiv(FSub(FSub(params.page_h, params.margin), FAdd(g.clip.y, g.clip.h)),
              params.scale), g.offset.y)

\* Adjoining tiles share at least `overlap` page units.
AdjoiningOverlap ==
    \A m \in 1..Len(pdf), n \in 1..Len(pdf) :
        LET g == pdf[m][1]
            h == pdf[n][1]
        IN  /\ (h.i = g.i + 1 /\ h.j = g.j) =>
                 FLe(params.overlap, FMul(params.scale, FSub(RightEdge(g), LeftEdge(h))))
            /\ (h.i = g.i /\ h.j = g.j + 1) =>
                 FLe(params.overlap, FMul(params.scale, FSub(TopEdge(g), BottomEdge(h))))

\* C1: once the pages are rendered, every point of the normalized extent
\* lies in the printable region of some tile of the grid, and adjoining
\* tiles overlap by at least `overlap` page units.
C1_TilingCoverage ==
    (AfterRender /\ Len(entities) >= 1) => (Covered /\ AdjoiningOverlap)

\* The same for an extent of positive width and height.
TilingCoveragePositiveExtent ==
    (AfterRender /\ Len(entities) >= 1 /\ FLt(Fin(0), bb.tr.x) /\ FLt(Fin(0), bb.tr.y))
        => (Covered /\ AdjoiningOverlap /\ num_cutsx >= 1 /\ num_cutsy >= 1)

\* C2: a drawing with at least one entity gets a grid of at least one tile
\* on each axis, and the render loops make at least one content page and
\* one overlay page.
C2_AtLeastOnePage ==
    Len(entities) >= 1 =>
        /\ (pc = "render" \/ AfterRender) => (num_cutsx >= 1 /\ num_cutsy >= 1)
        /\ AfterRender => (Len(pdf) >= 1 /\ Len(grid_pdf) >= 1)

\* The page indices classified non-empty, in increasing order, among the
\* tiles of the grid.
KeptTiles ==
    SelectSeq([n \in 1..(num_cutsx * num_cutsy) |-> n - 1],
              LAMBDA t : InSeq(t, non_empty_pages))

Layers(page) == {page[n].layer : n \in 1..Len(page)}

\* C3: on completion the output document holds exactly the tiles
\* classified non-empty, once each, in the order of the page index
\* i*tilesY + j; each output page combines the content page and the
\* overlay page of its tile; kept + removed = tilesX * tilesY and kept is
\* the number of output pages.
C3_Compositing ==
    pc = "done" =>
        /\ Len(writer) = Len(KeptTiles)
        /\ \A k \in 1..Len(writer) :
             /\ k <= Len(KeptTiles)
             /\ Layers(writer[k]) = {"content", "overlay"}
             /\ \A n \in 1..Len(writer[k]) :
                  writer[k][n].i * num_cutsy + writer[k][n].j = KeptTiles[k]
        /\ pages_kept + pages_removed = num_cutsx * num_cutsy
        /\ pages_kept = Len(writer)

\* C4: the document handed to the detector is the content document, never
\* the overlay document.
C4_ContentOnly ==
    analyzed # NoFile => analyzed.kind = "content"

C8_NoPartialOutput ==
    pc = "error" => fs[args.pdf].kind = "none"

\* C9: a run that completes leaves the final document at the output path,
\* and the three paths are distinct.
C9_FinalInPlace ==
    pc = "done" =>
        /\ fs[args.pdf] = [kind |-> "final", pages |-> writer]
        /\ temp_pdf_path(args) # grid_pdf_path(args)
        /\ temp_pdf_path(args) # args.pdf
        /\ grid_pdf_path(args) # args.pdf

\* C10: the bounding box is offset, tested for the orientation and divided
\* for the grid only after an entity was folded into it, so that its
\* corners are finite.
C10_AccumulatorNotRead ==
    orientation # "unset" =>
        /\ Len(entities) >= 1
        /\ IsFin(bb.bl.x) /\ IsFin(bb.bl.y) /\ IsFin(bb.tr.x) /\ IsFin(bb.tr.y)

(***************************************************************************)
(* What holds of the same properties when the output path contains ".pdf", *)
(* and of a run that ends before any file is written.                      *)
(***************************************************************************)
HasPdfSuffix == InSeq(".pdf", args.pdf)

CompositingForPdfPaths == HasPdfSuffix => C3_Compositing

ContentOnlyForPdfPaths == HasPdfSuffix => C4_ContentOnly

FinalInPlaceForPdfPaths == HasPdfSuffix => C9_FinalInPlace

\* An unsupported entity kind, or an empty drawing, ends the run before any
\* file is written.
NoFileBeforeRendering ==
    (pc = "error" /\ err \in {"ValueError", "OverflowError"}) =>
        \A p \in DOMAIN fs : fs[p] = NoFile

\* With an output path containing ".pdf", only a failure of the final open
\* or write, or of the removal of the temporary file, leaves a file at the
\* output path.
PartialOutputOnlyFromFinalWrite ==
    (HasPdfSuffix /\ pc = "error" /\ fs[args.pdf].kind # "none") =>
        (err \in {"IOError", "OSError"} /\ fs[args.pdf].kind \in {"partial", "final"})

=============================================================================
